---- MODULE Spec2Model ----
(***************************************************************************)
(* Model of the EV charging network optimisation engine                    *)
(* (OptimizedEVChargingNetwork.solve: relaxation, then pairwise local      *)
(* search) together with the site / network / reference-location entities *)
(* it operates on.                                                         *)
(*                                                                         *)
(* Numbers.  The source computes in floating point; the model computes the *)
(* same expressions exactly, over rationals <<numerator, denominator>> in  *)
(* lowest terms.  gamma is taken as ln 2, so that exp(gamma * x) = 2^x is  *)
(* exact.  Station counts are modelled by their integer value.             *)
(*                                                                         *)
(* Collaborators.  The distance collaborator is |x - y| on integer         *)
(* positions.  The solver collaborator returns an optimal solution of the  *)
(* binary programme it is handed (any one of them on ties) or fails when   *)
(* the programme is infeasible.                                            *)
(***************************************************************************)
EXTENDS Integers, Sequences, FiniteSets, TLC

(***************************************************************************)
(* Bounds of the model.                                                    *)
(***************************************************************************)
MaxSites == 2
MaxCap == 2
MaxBudget == 3
MaxSupply == 2
MaxIters == 2

(***************************************************************************)
(* Inputs of the constructors, drawn from small sets.                      *)
(***************************************************************************)
Positions == {0, 1}
UnitRevenue == 3
ArrivalRate == 2
MeanChargingTime == 1
VariableCosts == {1, 3}
FixedCosts == {0, 1}
MinCapacities == {0, 1}
NeighborhoodRadius == 1
SamplingTemperature == 1
Epsilons == {<<1, 20>>, <<1, 1>>, <<MaxCap, 1>>}
NpAllResults == {"bool", "generator"}

(***************************************************************************)
(* Exact rational arithmetic.                                              *)
(***************************************************************************)
Abs(x) == IF x < 0 THEN -x ELSE x

RECURSIVE GCD(_, _)
GCD(a, b) == IF b = 0 THEN a ELSE GCD(b, a % b)

Rat(n, d) ==
    LET g == GCD(Abs(n), Abs(d))
        s == IF d < 0 THEN -1 ELSE 1
    IN  <<s * (n \div g), s * (d \div g)>>

RatInt(n) == <<n, 1>>

RatAdd(x, y) ==
    LET g == GCD(x[2], y[2])
    IN  Rat(x[1] * (y[2] \div g) + y[1] * (x[2] \div g), (x[2] \div g) * y[2])

RatNeg(x) == <<-x[1], x[2]>>

RatSub(x, y) == RatAdd(x, RatNeg(y))

RatMul(x, y) ==
    LET g1 == GCD(Abs(x[1]), y[2])
        g2 == GCD(Abs(y[1]), x[2])
    IN  IF x[1] = 0 \/ y[1] = 0 THEN <<0, 1>>
        ELSE <<(x[1] \div g1) * (y[1] \div g2), (x[2] \div g2) * (y[2] \div g1)>>

RatDiv(x, y) == RatMul(x, Rat(y[2], y[1]))

\* x < y, by comparing integer parts and then the reciprocals of the
\* fractional parts, so that no cross product is formed
RECURSIVE RatLess(_, _)
RatLess(x, y) ==
    LET qx == x[1] \div x[2]
        qy == y[1] \div y[2]
        rx == x[1] - qx * x[2]
        ry == y[1] - qy * y[2]
    IN  IF qx # qy THEN qx < qy
        ELSE IF ry = 0 THEN FALSE
        ELSE IF rx = 0 THEN TRUE
        ELSE RatLess(<<y[2], ry>>, <<x[2], rx>>)

RatLeq(x, y) == ~RatLess(y, x)

RECURSIVE RatPow(_, _)
RatPow(x, k) == IF k = 0 THEN <<1, 1>> ELSE RatMul(x, RatPow(x, k - 1))

RECURSIVE RatSum(_, _, _)
\* sum of f[k] for k in lo..hi
RatSum(f, lo, hi) == IF lo > hi THEN <<0, 1>> ELSE RatAdd(f[lo], RatSum(f, lo + 1, hi))

RECURSIVE factorial(_)
factorial(k) == IF k = 0 THEN 1 ELSE k * factorial(k - 1)

RECURSIVE Pow2(_)
Pow2(k) == IF k = 0 THEN 1 ELSE 2 * Pow2(k - 1)

\* np.exp(gamma * x) with gamma = ln 2, for an integer x of either sign
Exp(x) == IF x >= 0 THEN <<Pow2(x), 1>> ELSE <<1, Pow2(-x)>>

\* the function f on 1..n as a sequence of values
AsSeq(f) == f \o <<>>

RECURSIVE SumInt(_, _, _)
SumInt(f, lo, hi) == IF lo > hi THEN 0 ELSE f[lo] + SumInt(f, lo + 1, hi)


(***************************************************************************)
(* State.                                                                  *)
(***************************************************************************)
VARIABLES
    sites,                  \* EVChargingNetwork.sites: sequence of site records
    distance_matrix,        \* EVChargingNetwork.distance_matrix
    reference_locations,    \* OptimizedEVChargingNetwork.reference_locations
    budget,                 \* OptimizedEVChargingNetwork.budget
    epsilon,                \* OptimizedEVChargingNetwork.epsilon (rational)
    num_local_search_iters, \* OptimizedEVChargingNetwork.num_local_search_iters
    local_search_history,   \* OptimizedEVChargingNetwork.local_search_history
    np_all,                 \* what np.all(<generator>) evaluates to in this installation
    pc,                     \* position in solve(), or the error that ended it
    t,                      \* loop counter of _local_search
    marginal_profit,        \* local of _solve_relaxation, as last computed
    adjusted_max_capacity,  \* local of _solve_relaxation, as last computed
    last_iter,              \* what the last local-search iteration sampled and was handed
    feasible_result         \* result of the last direct call of _is_feasible()

vars == <<sites, distance_matrix, reference_locations, budget, epsilon,
          num_local_search_iters, local_search_history, np_all, pc, t,
          marginal_profit, adjusted_max_capacity, last_iter, feasible_result>>

(***************************************************************************)
(* GeoLocation                                                             *)
(***************************************************************************)
\* GeoLocation.distance: the distance collaborator, on integer positions
distance(x, y) == Abs(x - y)

(***************************************************************************)
(* EVChargingSite                                                          *)
(***************************************************************************)
EVChargingSite(fixed_cost, variable_cost, unit_revenue, arrival_rate, mean_charging_time, num_charging_stations, max_capacity, min_capacity, geolocation) ==
    [fixed_cost |-> fixed_cost,
     variable_cost |-> variable_cost,
     unit_revenue |-> unit_revenue,
     arrival_rate |-> arrival_rate,
     effective_arrival_rate |-> RatInt(arrival_rate),
     mean_charging_time |-> mean_charging_time,
     num_charging_stations |-> num_charging_stations,
     max_capacity |-> max_capacity,
     min_capacity |-> min_capacity,
     geolocation |-> geolocation]

expected_utilization(site) ==
    LET utilization_factor == RatMul(site.effective_arrival_rate, RatInt(site.mean_charging_time))
        c == site.num_charging_stations
        normalization_constant ==
            RatAdd(RatInt(1),
                   RatSum([k \in 1..c |-> RatDiv(RatPow(utilization_factor, k), RatInt(factorial(k)))],
                          1, c))
    IN  RatDiv(RatSum([k \in 1..c |-> RatDiv(RatPow(utilization_factor, k), RatInt(factorial(k - 1)))],
                      1, c),
               normalization_constant)

profit(site) ==
    LET revenue == RatMul(RatInt(site.unit_revenue), expected_utilization(site))
        cost == site.variable_cost * site.num_charging_stations - site.fixed_cost
    IN  RatSub(revenue, RatInt(cost))

(***************************************************************************)
(* EVChargingNetwork                                                       *)
(***************************************************************************)
compute_distance_matrix(S) ==
    AsSeq([i \in 1..Len(S) |-> AsSeq([j \in 1..Len(S) |->
        IF i = j THEN 0 ELSE distance(S[i].geolocation, S[j].geolocation)])])

\* sites with no station keep the rate they had
update_effective_arrival_rates(S, D) ==
    AsSeq([i \in 1..Len(S) |->
        IF S[i].num_charging_stations # 0
        THEN [S[i] EXCEPT !.effective_arrival_rate =
                RatDiv(RatInt(S[i].arrival_rate),
                       RatSum([j \in 1..Len(S) |->
                                  RatMul(Exp(-(D[i][j] * D[i][j])),
                                         Rat(S[j].num_charging_stations, S[i].num_charging_stations))],
                              1, Len(S)))]
        ELSE S[i]])

total_charging_stations(S) ==
    SumInt([i \in 1..Len(S) |-> S[i].num_charging_stations], 1, Len(S))

total_profit(S) == RatSum([i \in 1..Len(S) |-> profit(S[i])], 1, Len(S))

(***************************************************************************)
(* ReferenceGeoLocation                                                    *)
(***************************************************************************)
ReferenceGeoLocation(geolocation, neighborhood_radius, min_supply) ==
    [geolocation |-> geolocation,
     neighborhood_radius |-> neighborhood_radius,
     min_supply |-> min_supply,
     neighborhood_sites |-> {}]

\* the site stands for its geolocation in the distance
update_neighborhood_sites(location, S) ==
    [location EXCEPT !.neighborhood_sites =
        {i \in 1..Len(S) : distance(location.geolocation, S[i].geolocation) < location.neighborhood_radius}]

(***************************************************************************)
(* OptimizedEVChargingNetwork: construction                                *)
(***************************************************************************)
NoIteration == [i |-> 0, j |-> 0, site |-> 0, neighbor |-> 0,
                stations_before |-> <<>>, profit_before |-> <<0, 1>>]

\* The state after OptimizedEVChargingNetwork.__init__.  Sites are built with
\* no station, as NetworkFactory.generate_sites builds them, with common
\* economics and capacity bounds.  Positions are used through distances only,
\* so the first site is put at position 0; the reference location is there too.
Init ==
    \E num_sites \in 1..MaxSites, max_capacity \in 1..MaxCap, min_capacity \in MinCapacities,
       fixed_cost \in FixedCosts, variable_cost \in VariableCosts,
       min_supply \in 0..MaxSupply, location \in {0} :
      \E geo \in [1..num_sites -> Positions] :
        /\ geo[1] = 0
        /\ min_capacity <= max_capacity
        /\ sites = update_effective_arrival_rates(
                     [i \in 1..num_sites |->
                        EVChargingSite(fixed_cost, variable_cost, UnitRevenue, ArrivalRate,
                                       MeanChargingTime, 0, max_capacity, min_capacity, geo[i])],
                     compute_distance_matrix([i \in 1..num_sites |-> [geolocation |-> geo[i]]]))
        /\ distance_matrix = compute_distance_matrix([i \in 1..num_sites |-> [geolocation |-> geo[i]]])
        /\ reference_locations =
             <<update_neighborhood_sites(
                 ReferenceGeoLocation(location, NeighborhoodRadius, min_supply),
                 [i \in 1..num_sites |-> [geolocation |-> geo[i]]])>>
        /\ budget \in 0..MaxBudget
        /\ epsilon \in Epsilons
        /\ num_local_search_iters = MaxIters
        /\ local_search_history = <<>>
        /\ np_all \in NpAllResults
        /\ pc = "relaxation"
        /\ t = 0
        /\ marginal_profit = <<>>
        /\ adjusted_max_capacity = <<>>
        /\ last_iter = NoIteration
        /\ feasible_result = "none"


(***************************************************************************)
(* OptimizedEVChargingNetwork._is_feasible                                 *)
(***************************************************************************)
Stations(S) == AsSeq([i \in 1..Len(S) |-> S[i].num_charging_stations])

\* x & y for a non-negative integer x and y in {0, 1}
BitAnd(x, y) == (x % 2) * y

\* np.all(<generator>) where it evaluates to a boolean: the generator is not
\* consumed, and as an object it is true
NpAllGenerator == 1

\* Python parses  total <= budget & np.all(..) & np.all(..) & np.all(..) & np.all(..)
\* as  total <= (budget & np.all(..) & np.all(..) & np.all(..) & np.all(..))
is_feasible(S) ==
    total_charging_stations(S) <=
        BitAnd(BitAnd(BitAnd(BitAnd(budget, NpAllGenerator), NpAllGenerator), NpAllGenerator),
               NpAllGenerator)

(***************************************************************************)
(* OptimizedEVChargingNetwork._solve_relaxation                            *)
(***************************************************************************)
MaxOf(f, n) == CHOOSE m \in {f[i] : i \in 1..n} : \A i \in 1..n : f[i] <= m

num_stations_of(S) == MaxOf([i \in 1..Len(S) |-> S[i].max_capacity], Len(S))

\* profit of a copy of the site that has n stations and the raw arrival rate
profit_of_copy(site, n) ==
    profit([site EXCEPT !.effective_arrival_rate = RatInt(site.arrival_rate),
                        !.num_charging_stations = n])

\* marginal_profit[i][j] for slot j = 1..num_stations (the source's column j - 1)
marginal_profits(S) ==
    AsSeq([i \in 1..Len(S) |-> AsSeq([j \in 1..num_stations_of(S) |->
        IF j <= S[i].max_capacity
        THEN RatSub(profit_of_copy(S[i], S[i].num_charging_stations + j),
                    IF j = 1 THEN RatInt(0)
                    ELSE profit_of_copy(S[i], S[i].num_charging_stations + j - 1))
        ELSE RatInt(0)])])

RatMin(x, y) == IF RatLess(y, x) THEN y ELSE x

RECURSIVE RatMinOf(_, _, _)
\* np.min of f[lo..hi], lo <= hi
RatMinOf(f, lo, hi) == IF lo = hi THEN f[lo] ELSE RatMin(f[lo], RatMinOf(f, lo + 1, hi))

\* the minimum runs over the whole row distance_matrix[i], diagonal included
adjusted_max_capacities(S, D, eps) ==
    AsSeq([i \in 1..Len(S) |->
        RatMin(RatInt(S[i].max_capacity),
               RatMinOf([j \in 1..Len(S) |-> RatMul(eps, Exp(D[i][j] * D[i][j]))], 1, Len(S)))])

\* RelaxationConstraints without the budget constraint z.sum() <= budget
RelaxationConstraints_no_budget(S, x, cap) ==
    /\ \A i \in 1..Len(S) : RatLeq(RatInt(x[i]), cap[i])
    /\ \A i \in 1..Len(S) : x[i] >= S[i].min_capacity
    /\ \A l \in 1..Len(reference_locations) :
          SumInt([i \in 1..Len(S) |->
                    IF i \in reference_locations[l].neighborhood_sites THEN x[i] ELSE 0],
                 1, Len(S)) >= reference_locations[l].min_supply

\* the binary programme's constraints; x[i] is the number of selected slots of
\* site i, which the ordering constraint z[i, k] >= z[i, k + 1] makes a prefix
RelaxationConstraints(S, x, cap) ==
    /\ SumInt(x, 1, Len(S)) <= budget
    /\ \A i \in 1..Len(S) : RatLeq(RatInt(x[i]), cap[i])
    /\ \A i \in 1..Len(S) : x[i] >= S[i].min_capacity
    /\ \A l \in 1..Len(reference_locations) :
          SumInt([i \in 1..Len(S) |->
                    IF i \in reference_locations[l].neighborhood_sites THEN x[i] ELSE 0],
                 1, Len(S)) >= reference_locations[l].min_supply

RelaxationObjective(S, x, mp) ==
    RatSum([i \in 1..Len(S) |-> RatSum(mp[i], 1, x[i])], 1, Len(S))

\* the solutions the solver may return
RelaxationSolutions(S, mp, cap) ==
    LET feasible == {x \in [1..Len(S) -> 0..num_stations_of(S)] : RelaxationConstraints(S, x, cap)}
        value == [x \in feasible |-> RelaxationObjective(S, x, mp)]
        values == {value[x] : x \in feasible}
        optimum == CHOOSE v \in values : \A w \in values : RatLeq(w, v)
    IN  {x \in feasible : value[x] = optimum}

SolveRelaxation ==
    /\ pc = "relaxation"
    /\ \E mp \in {marginal_profits(sites)},
          cap \in {adjusted_max_capacities(sites, distance_matrix, epsilon)} :
         /\ marginal_profit' = mp
         /\ adjusted_max_capacity' = cap
         /\ \E solutions \in {RelaxationSolutions(sites, mp, cap)} :
              IF solutions = {}
              THEN /\ pc' = "SolverError"
                   /\ UNCHANGED sites
              ELSE \E x \in solutions :
                     /\ sites' = update_effective_arrival_rates(
                                   [i \in 1..Len(sites) |->
                                      [sites[i] EXCEPT !.num_charging_stations = x[i]]],
                                   distance_matrix)
                     /\ pc' = IF num_local_search_iters = 0 THEN "done" ELSE "local_search"
    /\ UNCHANGED <<distance_matrix, reference_locations, budget, epsilon,
                   num_local_search_iters, local_search_history, np_all, t,
                   last_iter, feasible_result>>

(***************************************************************************)
(* OptimizedEVChargingNetwork._optimize_pair                               *)
(***************************************************************************)
\* site.num_charging_stations, neighbor.num_charging_stations = a, b
\* (left to right: when both are the same object, b stays)
assign_pair(S, site, neighbor, a, b) ==
    [[S EXCEPT ![site].num_charging_stations = a] EXCEPT ![neighbor].num_charging_stations = b]

Min(a, b) == IF a < b THEN a ELSE b

RECURSIVE pair_candidates_from_zero(_, _, _, _)
\* pair_candidates with the inner loop starting at 0 instead of neighbor.min_capacity
pair_candidates_from_zero(S, site, neighbor, z) ==
    IF z > S[site].max_capacity THEN <<>>
    ELSE LET num_available_stations ==
                 S[site].num_charging_stations + S[neighbor].num_charging_stations
             lo == 0
             hi == Min(S[neighbor].max_capacity, num_available_stations - z)
         IN  (IF hi < lo THEN <<>> ELSE [k \in 1..(hi - lo + 1) |-> <<z, lo + k - 1>>])
             \o pair_candidates_from_zero(S, site, neighbor, z + 1)

RECURSIVE pair_candidates_any_sum(_, _, _, _)
\* pair_candidates with the inner loop not bounded by num_available_stations - z
pair_candidates_any_sum(S, site, neighbor, z) ==
    IF z > S[site].max_capacity THEN <<>>
    ELSE LET lo == S[neighbor].min_capacity
             hi == S[neighbor].max_capacity
         IN  (IF hi < lo THEN <<>> ELSE [k \in 1..(hi - lo + 1) |-> <<z, lo + k - 1>>])
             \o pair_candidates_any_sum(S, site, neighbor, z + 1)

RECURSIVE pair_candidates(_, _, _, _)
\* the pairs (z, z_) in the order the two loops enumerate them, from z on
pair_candidates(S, site, neighbor, z) ==
    IF z > S[site].max_capacity THEN <<>>
    ELSE LET num_available_stations ==
                 S[site].num_charging_stations + S[neighbor].num_charging_stations
             lo == S[neighbor].min_capacity
             hi == Min(S[neighbor].max_capacity, num_available_stations - z)
         IN  (IF hi < lo THEN <<>> ELSE [k \in 1..(hi - lo + 1) |-> <<z, lo + k - 1>>])
             \o pair_candidates(S, site, neighbor, z + 1)

RECURSIVE try_candidates_keep_last(_, _, _, _, _)
\* try_candidates without the test obj_val > best_obj_val: every feasible
\* candidate replaces the incumbent
try_candidates_keep_last(st, site, neighbor, cands, k) ==
    IF k > Len(cands) THEN st
    ELSE LET tentative == assign_pair(st.sites, site, neighbor, cands[k][1], cands[k][2])
         IN  IF is_feasible(tentative)
             THEN LET updated == update_effective_arrival_rates(tentative, distance_matrix)
                      obj_val == total_profit(updated)
                  IN  try_candidates_keep_last(
                          [sites |-> updated, best_solution |-> cands[k], best_obj_val |-> obj_val],
                          site, neighbor, cands, k + 1)
             ELSE try_candidates_keep_last([st EXCEPT !.sites = tentative],
                                           site, neighbor, cands, k + 1)

RECURSIVE try_candidates_stale_obj_val(_, _, _, _, _)
\* try_candidates without the assignment best_obj_val = obj_val: a better
\* candidate replaces best_solution only
try_candidates_stale_obj_val(st, site, neighbor, cands, k) ==
    IF k > Len(cands) THEN st
    ELSE LET tentative == assign_pair(st.sites, site, neighbor, cands[k][1], cands[k][2])
         IN  IF is_feasible(tentative)
             THEN LET updated == update_effective_arrival_rates(tentative, distance_matrix)
                      obj_val == total_profit(updated)
                  IN  try_candidates_stale_obj_val(
                          IF RatLess(st.best_obj_val, obj_val)
                          THEN [sites |-> updated, best_solution |-> cands[k],
                                best_obj_val |-> st.best_obj_val]
                          ELSE [st EXCEPT !.sites = updated],
                          site, neighbor, cands, k + 1)
             ELSE try_candidates_stale_obj_val([st EXCEPT !.sites = tentative],
                                               site, neighbor, cands, k + 1)

RECURSIVE try_candidates(_, _, _, _, _)
\* the loop body over the candidates from index k on; st is the network's
\* sites with the incumbent (best_solution, best_obj_val)
try_candidates(st, site, neighbor, cands, k) ==
    IF k > Len(cands) THEN st
    ELSE LET tentative == assign_pair(st.sites, site, neighbor, cands[k][1], cands[k][2])
         IN  IF is_feasible(tentative)
             THEN LET updated == update_effective_arrival_rates(tentative, distance_matrix)
                      obj_val == total_profit(updated)
                  IN  try_candidates(
                          IF RatLess(st.best_obj_val, obj_val)
                          THEN [sites |-> updated, best_solution |-> cands[k], best_obj_val |-> obj_val]
                          ELSE [st EXCEPT !.sites = updated],
                          site, neighbor, cands, k + 1)
             ELSE try_candidates([st EXCEPT !.sites = tentative], site, neighbor, cands, k + 1)

\* the network's sites after the commit, and the value returned
optimize_pair(S, site, neighbor) ==
    LET cands == pair_candidates(S, site, neighbor, S[site].min_capacity)
        st == try_candidates(
                  [sites |-> S,
                   best_solution |-> <<S[site].num_charging_stations,
                                       S[neighbor].num_charging_stations>>,
                   best_obj_val |-> total_profit(S)],
                  site, neighbor, cands, 1)
    IN  [sites |-> update_effective_arrival_rates(
                       assign_pair(st.sites, site, neighbor,
                                   st.best_solution[1], st.best_solution[2]),
                       distance_matrix),
         best_obj_val |-> st.best_obj_val]

(***************************************************************************)
(* OptimizedEVChargingNetwork._local_search, one iteration of its loop     *)
(***************************************************************************)
sampling_weights(i) ==
    AsSeq([k \in 1..Len(sites) |->
              IF k = i THEN 0 ELSE distance_matrix[i][k] * SamplingTemperature])

\* the arguments _local_search passes to _optimize_pair
pair_site(i, j) == j

pair_neighbor(i, j) == j

IterationRecord(i, j) ==
    [i |-> i, j |-> j, site |-> pair_site(i, j), neighbor |-> pair_neighbor(i, j),
     stations_before |-> Stations(sites), profit_before |-> total_profit(sites)]

\* the weights sum to zero: p is NaN and np.random.choice raises ValueError
SamplingFails(i) ==
    /\ pc = "local_search"
    /\ SumInt(sampling_weights(i), 1, Len(sites)) = 0
    /\ pc' = "ValueError"
    /\ last_iter' = [NoIteration EXCEPT !.i = i, !.stations_before = Stations(sites),
                                        !.profit_before = total_profit(sites)]
    /\ UNCHANGED <<sites, distance_matrix, reference_locations, budget, epsilon,
                   num_local_search_iters, local_search_history, np_all, t,
                   marginal_profit, adjusted_max_capacity, feasible_result>>

\* np.all(<generator>) is the generator itself: budget & <generator> raises
\* TypeError at the first candidate, which has been assigned
FeasibilityRaises(i, j) ==
    /\ pc = "local_search"
    /\ np_all = "generator"
    /\ sampling_weights(i)[j] > 0
    /\ LET cands == pair_candidates(sites, pair_site(i, j), pair_neighbor(i, j),
                                    sites[pair_site(i, j)].min_capacity)
       IN  /\ cands # <<>>
           /\ sites' = assign_pair(sites, pair_site(i, j), pair_neighbor(i, j),
                                   cands[1][1], cands[1][2])
    /\ pc' = "TypeError"
    /\ last_iter' = IterationRecord(i, j)
    /\ UNCHANGED <<distance_matrix, reference_locations, budget, epsilon,
                   num_local_search_iters, local_search_history, np_all, t,
                   marginal_profit, adjusted_max_capacity, feasible_result>>

LocalSearchIteration(i, j) ==
    /\ pc = "local_search"
    /\ sampling_weights(i)[j] > 0
    /\ \/ np_all = "bool"
       \/ pair_candidates(sites, pair_site(i, j), pair_neighbor(i, j),
                          sites[pair_site(i, j)].min_capacity) = <<>>
    /\ \E r \in {optimize_pair(sites, pair_site(i, j), pair_neighbor(i, j))} :
         /\ sites' = r.sites
         /\ local_search_history' = Append(local_search_history, r.best_obj_val)
    /\ t' = t + 1
    /\ pc' = IF t + 1 = num_local_search_iters THEN "done" ELSE "local_search"
    /\ last_iter' = IterationRecord(i, j)
    /\ UNCHANGED <<distance_matrix, reference_locations, budget, epsilon,
                   num_local_search_iters, np_all,
                   marginal_profit, adjusted_max_capacity, feasible_result>>

Next ==
    \/ SolveRelaxation
    \/ \E i \in 1..Len(sites) : SamplingFails(i)
    \/ \E i \in 1..Len(sites), j \in 1..Len(sites) : FeasibilityRaises(i, j)
    \/ \E i \in 1..Len(sites), j \in 1..Len(sites) : LocalSearchIteration(i, j)

Spec == Init /\ [][Next]_vars


(***************************************************************************)
(* _is_feasible() called on a manufactured allocation                      *)
(***************************************************************************)
\* A network whose station counts the caller has set by hand.
InitFeasible ==
    \E num_sites \in 1..MaxSites, max_capacity \in 1..MaxCap, min_capacity \in MinCapacities,
       min_supply \in 0..MaxSupply :
      \E geo \in [1..num_sites -> Positions], stations \in [1..num_sites -> 0..(MaxCap + 1)] :
        /\ geo[1] = 0
        /\ min_capacity <= max_capacity
        /\ sites = update_effective_arrival_rates(
                     [i \in 1..num_sites |->
                        EVChargingSite(0, 1, UnitRevenue, ArrivalRate, MeanChargingTime,
                                       stations[i], max_capacity, min_capacity, geo[i])],
                     compute_distance_matrix([i \in 1..num_sites |-> [geolocation |-> geo[i]]]))
        /\ distance_matrix = compute_distance_matrix([i \in 1..num_sites |-> [geolocation |-> geo[i]]])
        /\ reference_locations =
             <<update_neighborhood_sites(
                 ReferenceGeoLocation(0, NeighborhoodRadius, min_supply),
                 [i \in 1..num_sites |-> [geolocation |-> geo[i]]])>>
        /\ budget \in 0..MaxBudget
        /\ epsilon = <<1, 20>>
        /\ num_local_search_iters = MaxIters
        /\ local_search_history = <<>>
        /\ np_all \in NpAllResults
        /\ pc = "manufactured"
        /\ t = 0
        /\ marginal_profit = <<>>
        /\ adjusted_max_capacity = <<>>
        /\ last_iter = NoIteration
        /\ feasible_result = "none"

IsFeasibleReturns ==
    /\ pc = "manufactured"
    /\ np_all = "bool"
    /\ feasible_result' = IF is_feasible(sites) THEN "True" ELSE "False"
    /\ pc' = "called"
    /\ UNCHANGED <<sites, distance_matrix, reference_locations, budget, epsilon,
                   num_local_search_iters, local_search_history, np_all, t,
                   marginal_profit, adjusted_max_capacity, last_iter>>

IsFeasibleRaises ==
    /\ pc = "manufactured"
    /\ np_all = "generator"
    /\ feasible_result' = "TypeError"
    /\ pc' = "called"
    /\ UNCHANGED <<sites, distance_matrix, reference_locations, budget, epsilon,
                   num_local_search_iters, local_search_history, np_all, t,
                   marginal_profit, adjusted_max_capacity, last_iter>>

NextFeasible == IsFeasibleReturns \/ IsFeasibleRaises

SpecFeasible == InitFeasible /\ [][NextFeasible]_vars

(***************************************************************************)
(* Properties                                                              *)
(***************************************************************************)
\* an allocation has been committed: relaxation is done, and so is every
\* local-search iteration started so far
Committed == pc \in {"local_search", "done"}

IterationCommitted == Committed /\ t >= 1

AllocationChanged == Stations(sites) # last_iter.stations_before

Coverage(l) ==
    SumInt([i \in 1..Len(sites) |->
              IF i \in reference_locations[l].neighborhood_sites
              THEN sites[i].num_charging_stations ELSE 0], 1, Len(sites))

\* C1: after the relaxation step and after the commit of every local-search
\* iteration, the station counts of all sites sum to at most the budget.
C1_BudgetInvariant == Committed => total_charging_stations(sites) <= budget

\* the local search has run to its end on an allocation that uses up a budget of two or more
C1_Witness ==
    /\ pc = "done"
    /\ t = num_local_search_iters
    /\ budget >= 2
    /\ total_charging_stations(sites) = budget

C3_CapacityInvariant ==
    Committed => \A i \in 1..Len(sites) :
                    /\ sites[i].num_charging_stations \in Nat
                    /\ sites[i].min_capacity <= sites[i].num_charging_stations
                    /\ sites[i].num_charging_stations <= sites[i].max_capacity

\* an iteration has lowered a site to its min_capacity
C3_Witness ==
    /\ IterationCommitted
    /\ \E i \in 1..Len(sites) :
         /\ sites[i].num_charging_stations = sites[i].min_capacity
         /\ last_iter.stations_before[i] > sites[i].num_charging_stations

\* C4: the total profit after the commit of a local-search iteration is at
\* least the total profit immediately before that iteration.
C4_ProfitNeverDecreases ==
    IterationCommitted => RatLeq(last_iter.profit_before, total_profit(sites))

\* an iteration has committed a strictly better allocation
C4_Witness ==
    /\ IterationCommitted
    /\ AllocationChanged
    /\ RatLess(last_iter.profit_before, total_profit(sites))

\* the four conditions of a feasible allocation
FeasibleAllocation ==
    /\ total_charging_stations(sites) <= budget
    /\ \A i \in 1..Len(sites) :
         /\ sites[i].min_capacity <= sites[i].num_charging_stations
         /\ sites[i].num_charging_stations <= sites[i].max_capacity
    /\ \A l \in 1..Len(reference_locations) :
         Coverage(l) >= reference_locations[l].min_supply
    /\ \A i \in 1..Len(sites) : sites[i].num_charging_stations \in Nat

\* C5: _is_feasible() returns true if and only if the allocation is within
\* the budget, within every site's capacity bounds, covers every reference
\* location's min_supply and has natural station counts.
C5_FeasibleIffFourConditions ==
    feasible_result # "none" => (feasible_result = "True" <=> FeasibleAllocation)

\* C6: once relaxation has produced an allocation, no local-search iteration
\* raises an error.
C6_LocalSearchNeverFails == pc \notin {"ValueError", "TypeError"}

\* C7: across a local-search iteration neither the combined station count of
\* the two sites handed to the pair optimisation nor the network's total
\* station count increases.
C7_NoNetIncrease ==
    IterationCommitted =>
        /\ sites[last_iter.site].num_charging_stations
             + sites[last_iter.neighbor].num_charging_stations
           <= last_iter.stations_before[last_iter.site]
                + last_iter.stations_before[last_iter.neighbor]
        /\ total_charging_stations(sites) <= SumInt(last_iter.stations_before, 1, Len(sites))

\* an iteration has committed a different allocation for the sites it was handed
C7_Witness ==
    /\ IterationCommitted
    /\ sites[last_iter.site].num_charging_stations
         # last_iter.stations_before[last_iter.site]

\* C8: the pair optimisation is handed the first sampled site i as site and
\* the second sampled site j, different from i, as neighbor.
C8_PairIsSampledPair ==
    last_iter.site # 0 =>
        /\ last_iter.site = last_iter.i
        /\ last_iter.neighbor = last_iter.j
        /\ last_iter.i # last_iter.j

\* epsilon * min over the other sites j # i of exp(gamma * distance(i, j)^2),
\* capped by max_capacity; with no other site the cap is max_capacity
CapOverOtherSites(i) ==
    LET others == [k \in 1..(Len(sites) - 1) |->
                     LET j == IF k < i THEN k ELSE k + 1
                     IN  RatMul(epsilon, Exp(distance_matrix[i][j] * distance_matrix[i][j]))]
    IN  IF Len(sites) = 1 THEN RatInt(sites[i].max_capacity)
        ELSE RatMin(RatInt(sites[i].max_capacity), RatMinOf(others, 1, Len(sites) - 1))

\* C9: the adjusted capacity cap of site i is the smaller of max_capacity and
\* epsilon times the minimum of exp(gamma * distance^2) over the other sites.
C9_CapOverOtherSites ==
    adjusted_max_capacity # <<>> =>
        \A i \in 1..Len(sites) : adjusted_max_capacity[i] = CapOverOtherSites(i)

\* C10: the marginal profit of slot k of a site is profit(k stations) minus
\* profit(k - 1 stations) at the raw arrival rate, for k = 1 too.
C10_MarginalIsDifference ==
    marginal_profit # <<>> =>
        \A i \in 1..Len(sites) : \A k \in 1..sites[i].max_capacity :
            marginal_profit[i][k] =
                RatSub(profit_of_copy(sites[i], k), profit_of_copy(sites[i], k - 1))

\* C11: every local-search iteration appends exactly one value to
\* local_search_history, the total profit of the allocation the iteration
\* committed (the original one included), nothing else changes the log, and
\* when solve() returns the log has num_local_search_iters entries.
C11_HistoryLog ==
    /\ [][t' = t + 1 =>
             local_search_history' = Append(local_search_history, total_profit(sites'))]_vars
    /\ [][t' = t => local_search_history' = local_search_history]_vars
    /\ [](pc = "done" => Len(local_search_history) = num_local_search_iters)

\* solve() has returned after a last iteration that kept the allocation it
\* found, which has stations, and logged its total profit
C11_Witness ==
    /\ pc = "done"
    /\ t = num_local_search_iters
    /\ t >= 2
    /\ Len(local_search_history) = t
    /\ ~AllocationChanged
    /\ total_charging_stations(sites) >= 1
    /\ local_search_history[t] = total_profit(sites)

====
